---- MODULE Spec2Model ----
(***************************************************************************)
(* Foxy: the encrypted credential store (ApiKeyManager), the schema-       *)
(* validated JSON cache (CacheController) and the client that uses both    *)
(* (FoxyClient).                                                           *)
(*                                                                         *)
(* Strings are sequences of one-character strings.  The filesystem is      *)
(* taken to be reliable: writeFileSync and unlinkSync do what they are     *)
(* asked.  The cipher is a scaled-down block cipher in CBC mode with       *)
(* PKCS#7 padding: a keyed permutation of the block space, chained through *)
(* the IV, whose only integrity check is the padding check of the final    *)
(* block, as for aes-256-cbc.                                              *)
(***************************************************************************)
EXTENDS Integers, Sequences, FiniteSets, TLC

VARIABLES
    machine,        \* the host the current process runs on (its identifiers)
    encryptionKey,  \* ApiKeyManager.encryptionKey of the current process
    secretFile,     \* content of ~/.foxy-config.enc, or Absent
    secretRet,      \* outcome of the last ApiKeyManager operation
    lastSave        \* history: the last saveApiKey (secret, key), or none

secretVars == <<machine, encryptionKey, secretFile, secretRet, lastSave>>

---------------------------------------------------------------------------
(* Bounds *)

MaxSecretLen == 2
NumMachines == 2
NumIVs == 4
MaxCalls == 2
MaxLines == 2

---------------------------------------------------------------------------
(* Strings and bytes *)

Absent == <<"<absent>">>

\* UTF-16 code units a secret is made of; "uD800" is an unpaired surrogate.
CodeUnit == {"A", " ", "uD800"}

Byte == 0 .. 7

RECURSIVE SeqsUpTo(_, _)
SeqsUpTo(S, n) ==
    IF n = 0 THEN {<<>>}
    ELSE LET shorter == SeqsUpTo(S, n - 1)
         IN  shorter \cup {Append(s, x) : s \in {t \in shorter : Len(t) = n - 1}, x \in S}

Secrets == SeqsUpTo(CodeUnit, MaxSecretLen)

\* cipher.update(text, 'utf8', ...): the UTF-8 encoding of a string; an
\* unpaired surrogate is encoded as U+FFFD.
Utf8Byte(c) ==
    CASE c = "A" -> 0
      [] c = "I" -> 1
      [] c = "z" -> 2
      [] c = "a" -> 3
      [] c = " " -> 4
      [] OTHER -> 5

Utf8Encode(s) == [i \in 1 .. Len(s) |-> Utf8Byte(s[i])]

\* decipher.update(..., 'utf8'): decoding never fails; a byte sequence that
\* is not valid UTF-8 decodes to U+FFFD.
Utf8Char(b) ==
    CASE b = 0 -> "A"
      [] b = 1 -> "I"
      [] b = 2 -> "z"
      [] b = 3 -> "a"
      [] b = 4 -> " "
      [] OTHER -> "uFFFD"

Utf8Decode(bs) == [i \in 1 .. Len(bs) |-> Utf8Char(bs[i])]

HexDigit(b) ==
    CASE b = 0 -> "0"
      [] b = 1 -> "1"
      [] b = 2 -> "2"
      [] b = 3 -> "3"
      [] b = 4 -> "4"
      [] b = 5 -> "5"
      [] b = 6 -> "6"
      [] OTHER -> "7"

HexChars == {HexDigit(b) : b \in Byte}

HexValue(c) == CHOOSE b \in Byte : HexDigit(b) = c

\* Buffer.toString('hex')
HexEncode(bs) == [i \in 1 .. Len(bs) |-> HexDigit(bs[i])]

\* Buffer.from(text, 'hex'): decoding stops at the first character that is
\* not a hex digit.
RECURSIVE HexDecode(_)
HexDecode(cs) ==
    IF cs = <<>> \/ Head(cs) \notin HexChars THEN <<>>
    ELSE <<HexValue(Head(cs))>> \o HexDecode(Tail(cs))

---------------------------------------------------------------------------
(* The cipher: aes-256-cbc scaled down *)

BlockLen == 2

BlockSpace == Cardinality(Byte) * Cardinality(Byte)

Blocks == 0 .. (BlockSpace - 1)

BlockOf(b1, b2) == b1 * Cardinality(Byte) + b2

BlockBytes(x) == <<x \div Cardinality(Byte), x % Cardinality(Byte)>>

Machines == 1 .. NumMachines

\* getSystemKey: the truncated SHA-256 of the machine's identifiers.
getSystemKey(m) == m

\* The keyed permutation of the block space and its inverse.
BlockEncrypt(k, x) == ((2 * k + 1) * x + 7 * k) % BlockSpace

BlockDecrypt(k, y) == CHOOSE x \in Blocks : BlockEncrypt(k, x) = y

\* PKCS#7: n bytes of value n, 1 <= n <= BlockLen, always added.
Pad(bs) ==
    LET n == BlockLen - (Len(bs) % BlockLen)
    IN  bs \o [i \in 1 .. n |-> n]

PadOk(bs) ==
    /\ Len(bs) > 0
    /\ LET n == bs[Len(bs)]
       IN  /\ n \in 1 .. BlockLen
           /\ n <= Len(bs)
           /\ \A i \in (Len(bs) - n + 1) .. Len(bs) : bs[i] = n

Unpad(bs) == SubSeq(bs, 1, Len(bs) - bs[Len(bs)])

RECURSIVE CbcEncrypt(_, _, _)
CbcEncrypt(k, prev, bs) ==
    IF bs = <<>> THEN <<>>
    ELSE LET c == BlockEncrypt(k, (BlockOf(bs[1], bs[2]) + prev) % BlockSpace)
         IN  BlockBytes(c) \o CbcEncrypt(k, c, SubSeq(bs, 3, Len(bs)))

RECURSIVE CbcDecrypt(_, _, _)
CbcDecrypt(k, prev, cs) ==
    IF cs = <<>> THEN <<>>
    ELSE LET c == BlockOf(cs[1], cs[2])
             p == (BlockDecrypt(k, c) - prev + BlockSpace) % BlockSpace
         IN  BlockBytes(p) \o CbcDecrypt(k, c, SubSeq(cs, 3, Len(cs)))

\* The values randomBytes may return.
IVs == {BlockBytes(x) : x \in {y \in Blocks : y < NumIVs}}

\* String.prototype.split(':')
RECURSIVE Split(_)
Split(cs) ==
    IF \A i \in 1 .. Len(cs) : cs[i] # ":" THEN <<cs>>
    ELSE LET j == CHOOSE i \in 1 .. Len(cs) :
                     cs[i] = ":" /\ \A h \in 1 .. (i - 1) : cs[h] # ":"
         IN  <<SubSeq(cs, 1, j - 1)>> \o Split(SubSeq(cs, j + 1, Len(cs)))

\* ApiKeyManager.encrypt with the IV that randomBytes drew.
encrypt(k, iv, text) ==
    LET c == BlockOf(iv[1], iv[2])
    IN  HexEncode(iv) \o <<":">> \o HexEncode(CbcEncrypt(k, c, Pad(Utf8Encode(text))))

\* ApiKeyManager.decrypt: [ok, val]; every failure inside is the one
\* decryption error.
DecryptError == [ok |-> FALSE, val |-> <<>>, err |-> "decrypt_error"]

encryptedPart(parts) == IF Len(parts) >= 2 THEN parts[2] ELSE <<>>

decrypt(k, encryptedText) ==
    LET parts == Split(encryptedText)
        ivHex == parts[1]
        encryptedHex == encryptedPart(parts)
    IN  IF ivHex = <<>> \/ encryptedHex = <<>> THEN DecryptError
        ELSE LET iv == HexDecode(ivHex)
                 ct == HexDecode(encryptedHex)
             IN  IF Len(iv) # BlockLen THEN DecryptError
                 ELSE IF Len(ct) = 0 \/ Len(ct) % BlockLen # 0 THEN DecryptError
                 ELSE LET plain == CbcDecrypt(k, BlockOf(iv[1], iv[2]), ct)
                      IN  IF ~PadOk(plain) THEN DecryptError
                          ELSE [ok |-> TRUE, val |-> Utf8Decode(Unpad(plain)), err |-> ""]

---------------------------------------------------------------------------
(* ApiKeyManager *)

NoSave == [some |-> FALSE, secret |-> <<>>, key |-> 0, overwrote |-> FALSE]

\* cause: the message that a load error wraps.
SecretResult(op, ok, err, val) ==
    [op |-> op, ok |-> ok, err |-> err, val |-> val, cause |-> ""]

\* existsSync(configPath)
hasApiKey == secretFile # Absent

\* new ApiKeyManager() in a process started on machine m.
construct(m) ==
    /\ machine' = m
    /\ encryptionKey' = getSystemKey(m)
    /\ UNCHANGED <<secretFile, lastSave>>

NewApiKeyManager(m) ==
    /\ construct(m)
    /\ secretRet' = SecretResult("constructor", TRUE, "", <<>>)

HasApiKey ==
    /\ secretRet' = SecretResult("hasApiKey", hasApiKey, "", <<>>)
    /\ UNCHANGED <<machine, encryptionKey, secretFile, lastSave>>

\* writeFileSync that does not replace a file that exists.
savedRecordKeepOld(old, encrypted) == IF old = Absent THEN encrypted ELSE old

\* What writeFileSync(configPath, encrypted) leaves in the file.
savedRecord(old, encrypted) == encrypted

\* saveApiKey with the IV that randomBytes drew: what it does to the store.
saveApiKey(apiKey, iv) ==
    /\ secretFile' = savedRecord(secretFile, encrypt(encryptionKey, iv, apiKey))
    /\ lastSave' = [some |-> TRUE, secret |-> apiKey, key |-> encryptionKey,
                    overwrote |-> hasApiKey]
    /\ UNCHANGED <<machine, encryptionKey>>

SaveApiKey(apiKey, iv) ==
    /\ saveApiKey(apiKey, iv)
    /\ secretRet' = SecretResult("saveApiKey", TRUE, "", <<>>)

\* loadApiKey without the hasApiKey guard.
loadOutcomeNoGuard(k, file) ==
    LET d == decrypt(k, file)
    IN  IF d.ok THEN [ok |-> TRUE, err |-> "", val |-> d.val, cause |-> ""]
        ELSE [ok |-> FALSE, err |-> "load_error", val |-> <<>>, cause |-> d.err]

\* The outcome of loadApiKey on a file content under key k.
loadOutcome(k, file) ==
    IF file = Absent
    THEN [ok |-> FALSE, err |-> "not_found", val |-> <<>>, cause |-> ""]
    ELSE LET d == decrypt(k, file)
         IN  IF d.ok THEN [ok |-> TRUE, err |-> "", val |-> d.val, cause |-> ""]
             ELSE [ok |-> FALSE, err |-> "load_error", val |-> <<>>,
                   cause |-> d.err]

LoadApiKey ==
    /\ LET r == loadOutcome(encryptionKey, secretFile)
       IN  secretRet' = [SecretResult("loadApiKey", r.ok, r.err, r.val)
                             EXCEPT !.cause = r.cause]
    /\ UNCHANGED <<machine, encryptionKey, secretFile, lastSave>>

\* deleteApiKey: what it does to the store.
deleteApiKey ==
    /\ secretFile' = Absent
    /\ lastSave' = NoSave
    /\ UNCHANGED <<machine, encryptionKey>>

DeleteApiKey ==
    /\ deleteApiKey
    /\ secretRet' = SecretResult("deleteApiKey", TRUE, "", <<>>)

\* Records that are not "ivHex:encryptedHex": a truncated or edited file.
DamagedRecords == {<<"0", "1">>, <<":", "0", "1">>, <<"0", "1", ":">>}

\* The secret file is damaged outside the program.
DamageSecretFile(text) ==
    /\ secretFile' = text
    /\ secretRet' = SecretResult("external", TRUE, "", <<>>)
    /\ lastSave' = NoSave
    /\ UNCHANGED <<machine, encryptionKey>>

InitSecret ==
    /\ machine = 1
    /\ encryptionKey = getSystemKey(machine)
    /\ secretFile = Absent
    /\ secretRet = SecretResult("constructor", TRUE, "", <<>>)
    /\ lastSave = NoSave

NextSecret ==
    \/ \E m \in Machines : NewApiKeyManager(m)
    \/ HasApiKey
    \/ \E s \in Secrets, iv \in IVs : SaveApiKey(s, iv)
    \/ LoadApiKey
    \/ DeleteApiKey
    \/ \E text \in DamagedRecords : DamageSecretFile(text)

---------------------------------------------------------------------------
(* JavaScript values, JSON text and schemas *)

\* A value is undefined or a plain object with the properties instrutor and
\* extra; a property is missing ("<none>"), present with the value
\* undefined, or present with a string.
Undefined == [t |-> "undefined", instrutor |-> "<none>", extra |-> "<none>"]

Obj(i, e) == [t |-> "obj", instrutor |-> i, extra |-> e]

Normal == Obj("normal", "<none>")

ChatMode == Obj("chat_mode", "<none>")

Invalid == Obj("invalid", "<none>")

\* The objects a caller may hand over as data or as a default.
Values == {Normal, Invalid, Obj("normal", "x")}

\* JSON.parse(JSON.stringify(v)) of an object: a property whose value is
\* undefined is left out of the text.
JsonOf(v) ==
    Obj(IF v.instrutor = "undefined" THEN "<none>" ELSE v.instrutor,
        IF v.extra = "undefined" THEN "<none>" ELSE v.extra)

\* A file is absent, holds text that JSON.parse rejects, or holds the JSON
\* text of an object.
NoFile == [kind |-> "absent", val |-> Undefined]

Garbage == [kind |-> "garbage", val |-> Undefined]

\* JSON.stringify(data, null, 2)
JSONstringify(v) == [kind |-> "json", val |-> JsonOf(v)]

\* JSON.parse(rawData)
JSONparse(text) ==
    IF text.kind = "json" THEN [ok |-> TRUE, val |-> text.val]
    ELSE [ok |-> FALSE, val |-> Undefined]

\* SettingsSchema = z.object({instrutor: z.enum(['chat_mode', 'normal'])});
\* a z.object drops the keys it does not declare from the parsed data.
SettingsSchema == [registered |-> TRUE, hasDefault |-> FALSE, dflt |-> Undefined]

\* A schema that declares an intrinsic default: SettingsSchema.default(I).
SettingsWithDefault == [registered |-> TRUE, hasDefault |-> TRUE, dflt |-> Normal]

NoSchema == [registered |-> FALSE, hasDefault |-> FALSE, dflt |-> Undefined]

CacheKeys == {"settings", "prefs", "other"}

\* this.schemas[filename] of a controller built with the registry
\* {settings: SettingsSchema, prefs: SettingsSchema.default(...)}.
schemas(key) ==
    CASE key = "settings" -> SettingsSchema
      [] key = "prefs" -> SettingsWithDefault
      [] OTHER -> NoSchema

safeParse(schema, v) ==
    LET input == IF schema.hasDefault /\ v = Undefined THEN schema.dflt ELSE v
    IN  IF input.t = "obj" /\ input.instrutor \in {"chat_mode", "normal"}
        THEN [success |-> TRUE, data |-> Obj(input.instrutor, "<none>")]
        ELSE [success |-> FALSE, data |-> Undefined]

---------------------------------------------------------------------------
(* CacheController *)

VARIABLES
    cacheFiles,     \* key -> content of <cacheDir>/<key>.json.cache
    cacheWrite,     \* history: key -> who wrote the file last, and which value
    cacheRet        \* outcome of the last CacheController operation

cacheVars == <<cacheFiles, cacheWrite, cacheRet>>

NoWrite == [by |-> "none", val |-> Undefined]

CacheResult(ok, err, val, from, warned, wrote, files) ==
    [ok |-> ok, err |-> err, val |-> val, from |-> from, warned |-> warned,
     wrote |-> wrote, files |-> files]

CacheFailure(err, files) ==
    CacheResult(FALSE, err, Undefined, "none", FALSE, FALSE, files)

\* fs.writeFileSync(filePath, JSON.stringify(data, null, 2), 'utf8')
writeCacheFile(files, key, data) == [files EXCEPT ![key] = JSONstringify(data)]

\* saveCache refusing a value that fails the schema.
saveCacheStrict(files, key, data) ==
    LET schema == schemas(key)
    IN  IF ~schema.registered THEN CacheFailure("schema_not_found", files)
        ELSE IF ~safeParse(schema, data).success THEN CacheFailure("validation", files)
        ELSE CacheResult(TRUE, "", Undefined, "none", FALSE, TRUE,
                         writeCacheFile(files, key, data))

\* saveCache looking the schema up only after the write.
saveCacheWriteFirst(files, key, data) ==
    LET schema == schemas(key)
        written == writeCacheFile(files, key, data)
    IN  IF ~schema.registered THEN CacheFailure("schema_not_found", written)
        ELSE CacheResult(TRUE, "", Undefined, "none",
                         ~safeParse(schema, data).success, TRUE, written)

saveCache(files, key, data) ==
    LET schema == schemas(key)
    IN  IF ~schema.registered THEN CacheFailure("schema_not_found", files)
        ELSE CacheResult(TRUE, "", Undefined, "none",
                         ~safeParse(schema, data).success, TRUE,
                         writeCacheFile(files, key, data))

\* loadCache ignoring the default the schema declares.
effectiveDefaultExplicitOnly(schema, defaultValue) == defaultValue

\* The default loadCache works with: the caller's, else the one the schema
\* declares.
effectiveDefault(schema, defaultValue) ==
    IF defaultValue = Undefined /\ schema.hasDefault THEN schema.dflt
    ELSE defaultValue

\* saveCache(filename, effectiveDefaultValue); return effectiveDefaultValue
persistDefault(files, key, dflt) ==
    LET s == saveCache(files, key, dflt)
    IN  CacheResult(TRUE, "", dflt, "default", s.warned, TRUE, s.files)

\* A fallback that returns the default and leaves the file alone.
fallBackNoPersist(files, key, dflt, err) ==
    IF dflt # Undefined
    THEN CacheResult(TRUE, "", dflt, "default", FALSE, FALSE, files)
    ELSE CacheFailure(err, files)

\* The fallback of loadCache when the file cannot be used.
fallBack(files, key, dflt, err) ==
    IF dflt # Undefined THEN persistDefault(files, key, dflt)
    ELSE CacheFailure(err, files)

\* loadCache returning what the file holds without validating it.
loadExistingNoValidation(files, key, schema, dflt) ==
    LET parsed == JSONparse(files[key])
    IN  IF ~parsed.ok THEN fallBack(files, key, dflt, "processing_error")
        ELSE CacheResult(TRUE, "", parsed.val, "file", FALSE, FALSE, files)

\* The branch of loadCache for a file that exists.
loadExisting(files, key, schema, dflt) ==
    LET parsed == JSONparse(files[key])
    IN  IF ~parsed.ok THEN fallBack(files, key, dflt, "processing_error")
        ELSE LET result == safeParse(schema, parsed.val)
             IN  IF ~result.success
                 THEN fallBack(files, key, dflt, "processing_error")
                 ELSE CacheResult(TRUE, "", result.data, "file", FALSE, FALSE, files)

\* loadCache returning the default for a missing file without saving it.
loadMissingNoPersist(files, key, dflt) ==
    IF dflt # Undefined
    THEN CacheResult(TRUE, "", dflt, "default", FALSE, FALSE, files)
    ELSE CacheFailure("not_found", files)

\* The branch of loadCache for a file that does not exist.
loadMissing(files, key, dflt) == fallBack(files, key, dflt, "not_found")

loadCache(files, key, defaultValue) ==
    LET schema == schemas(key)
    IN  IF ~schema.registered THEN CacheFailure("schema_not_found", files)
        ELSE LET dflt == effectiveDefault(schema, defaultValue)
             IN  IF files[key].kind # "absent"
                 THEN loadExisting(files, key, schema, dflt)
                 ELSE loadMissing(files, key, dflt)

\* fs.existsSync(filePath): cacheExists and hasExistingCache
cacheExists(files, key) == files[key].kind # "absent"

\* The value createCache saves: the caller's, else the schema's default.
valueToSave(schema, defaultValue) ==
    IF defaultValue = Undefined /\ schema.hasDefault THEN schema.dflt
    ELSE defaultValue

\* createCache keeping a file that already exists.
createCacheKeepExisting(files, key, defaultValue) ==
    LET schema == schemas(key)
    IN  IF ~schema.registered THEN CacheFailure("schema_not_found", files)
        ELSE LET v == valueToSave(schema, defaultValue)
             IN  IF v = Undefined THEN CacheFailure("no_default", files)
                 ELSE IF files[key].kind # "absent"
                 THEN CacheResult(TRUE, "", v, "default", FALSE, FALSE, files)
                 ELSE persistDefault(files, key, v)

createCache(files, key, defaultValue) ==
    LET schema == schemas(key)
    IN  IF ~schema.registered THEN CacheFailure("schema_not_found", files)
        ELSE LET v == valueToSave(schema, defaultValue)
             IN  IF v = Undefined THEN CacheFailure("no_default", files)
                 ELSE persistDefault(files, key, v)

\* How the file of a key stands against the key's schema.
FileKind(files, key) ==
    LET f == files[key]
    IN  IF f.kind = "absent" THEN "absent"
        ELSE IF ~JSONparse(f).ok THEN "unparsable"
        ELSE IF ~schemas(key).registered THEN "unchecked"
        ELSE IF f.val.instrutor \in {"chat_mode", "normal"} THEN "valid"
        ELSE "invalid"

Before(key) ==
    [kind |-> FileKind(cacheFiles, key), file |-> cacheFiles[key],
     write |-> cacheWrite[key]]

\* One call of a CacheController operation: its result, what it leaves on
\* disk, and the record of the call.
CacheCall(op, key, arg, r) ==
    /\ cacheFiles' = r.files
    /\ cacheWrite' = IF r.wrote
                     THEN [cacheWrite EXCEPT ![key] =
                              [by |-> op, val |-> IF op = "saveCache" THEN arg ELSE r.val]]
                     ELSE cacheWrite
    /\ cacheRet' = [op |-> op, key |-> key, arg |-> arg, ok |-> r.ok, err |-> r.err,
                    val |-> r.val, from |-> r.from, warned |-> r.warned,
                    before |-> Before(key)]

SaveCache(key, data) == CacheCall("saveCache", key, data, saveCache(cacheFiles, key, data))

LoadCache(key, defaultValue) ==
    CacheCall("loadCache", key, defaultValue, loadCache(cacheFiles, key, defaultValue))

CreateCache(key, defaultValue) ==
    CacheCall("createCache", key, defaultValue, createCache(cacheFiles, key, defaultValue))

CacheExists(key) ==
    CacheCall("cacheExists", key, Undefined,
              CacheResult(cacheExists(cacheFiles, key), "", Undefined, "none",
                          FALSE, FALSE, cacheFiles))

\* clearCache: unlink the file if it exists.
ClearCache(key) ==
    /\ cacheFiles' = [cacheFiles EXCEPT ![key] = NoFile]
    /\ cacheWrite' = [cacheWrite EXCEPT ![key] = NoWrite]
    /\ cacheRet' = [op |-> "clearCache", key |-> key, arg |-> Undefined, ok |-> TRUE,
                    err |-> "", val |-> Undefined, from |-> "none", warned |-> FALSE,
                    before |-> Before(key)]

\* Another program, or the operator, writes the file of a key.
ExternalContents == {Garbage, JSONstringify(Invalid), JSONstringify(ChatMode)}

ExternalWrite(key, text) ==
    /\ cacheFiles' = [cacheFiles EXCEPT ![key] = text]
    /\ cacheWrite' = [cacheWrite EXCEPT ![key] = [by |-> "external", val |-> Undefined]]
    /\ cacheRet' = [op |-> "external", key |-> key, arg |-> Undefined, ok |-> TRUE,
                    err |-> "", val |-> Undefined, from |-> "none", warned |-> FALSE,
                    before |-> Before(key)]

InitCache ==
    /\ cacheFiles = [k \in CacheKeys |-> NoFile]
    /\ cacheWrite = [k \in CacheKeys |-> NoWrite]
    /\ cacheRet = [op |-> "constructor", key |-> "settings", arg |-> Undefined,
                   ok |-> TRUE, err |-> "", val |-> Undefined, from |-> "none",
                   warned |-> FALSE,
                   before |-> [kind |-> "absent", file |-> NoFile, write |-> NoWrite]]

NextCache ==
    \/ \E k \in CacheKeys, v \in Values : SaveCache(k, v)
    \/ \E k \in CacheKeys, d \in Values \cup {Undefined} : LoadCache(k, d)
    \/ \E k \in CacheKeys, d \in Values \cup {Undefined} : CreateCache(k, d)
    \/ \E k \in CacheKeys : CacheExists(k)
    \/ \E k \in CacheKeys : ClearCache(k)
    \/ \E k \in CacheKeys, text \in ExternalContents : ExternalWrite(k, text)

---------------------------------------------------------------------------
(* FoxyClient *)

VARIABLES
    isInitialized,  \* FoxyClient.isInitialized
    GGProfile,      \* FoxyClient.GGProfile: the remote-API handle, or none
    calls           \* the responder calls: where each stands, and its locals

clientVars == <<isInitialized, GGProfile, calls>>

Calls == 1 .. MaxCalls

NoHandle == [some |-> FALSE, apiKey |-> <<>>]

\* A handle built without the credential it was given.
GGClientNoKey(apiKey) == [some |-> TRUE, apiKey |-> <<>>]

\* new GGClient({GOOGLE_API_KEY: apiKey}, 'gemini-2.0-flash')
GGClient(apiKey) == [some |-> TRUE, apiKey |-> apiKey]

\* What the operator has not been asked.
NoAnswer == <<"<none>">>

\* answer, confirm: what the operator typed at the two questions of
\* promptForApiKey during this call.
IdleCall == [pc |-> "idle", apiKey |-> <<>>, err |-> "", handle |-> NoHandle,
             mode |-> "", cache |-> "", answer |-> NoAnswer,
             confirm |-> "<none>"]

\* The characters String.prototype.trim removes; "LF" is the line feed.
WhiteSpace == {" ", "LF"}

\* String.prototype.trim
RECURSIVE TrimStart(_)
TrimStart(s) ==
    IF s # <<>> /\ Head(s) \in WhiteSpace THEN TrimStart(Tail(s)) ELSE s

RECURSIVE TrimEnd(_)
TrimEnd(s) ==
    IF s # <<>> /\ s[Len(s)] \in WhiteSpace
    THEN TrimEnd(SubSeq(s, 1, Len(s) - 1)) ELSE s

Trim(s) == TrimEnd(TrimStart(s))

\* A prefix test that no value passes.
StartsWithAIzaNever(s) == FALSE

\* apiKey.trim().startsWith('AIza')
StartsWithAIza(s) == Len(s) >= 4 /\ SubSeq(s, 1, 4) = <<"A", "I", "z", "a">>

\* What the operator may type at the API key prompt.
Answers == {<<" ">>, <<"A", "I", "z", "a", " ">>, <<"z">>}

\* The call rejects: its locals are gone, the error remains.
Fail(c, err) ==
    calls' = [calls EXCEPT ![c] = [IdleCall EXCEPT !.pc = "failed", !.err = err,
                                                   !.cache = calls[c].cache]]

Goto(c, pc) == calls' = [calls EXCEPT ![c].pc = pc]

\* responder is called: ensureInitialized runs up to its first suspension.
StartResponder(c) ==
    /\ calls[c].pc = "idle"
    /\ IF isInitialized /\ GGProfile.some
       THEN /\ Goto(c, "afterInit")
            /\ UNCHANGED <<isInitialized, GGProfile>>
       ELSE IF hasApiKey /\ loadOutcome(encryptionKey, secretFile).ok
       THEN /\ GGProfile' = GGClient(loadOutcome(encryptionKey, secretFile).val)
            /\ isInitialized' = TRUE
            /\ Goto(c, "afterInit")
       ELSE /\ Goto(c, "prompt")
            /\ UNCHANGED <<isInitialized, GGProfile>>
    /\ UNCHANGED <<secretVars, cacheVars>>

\* promptForApiKey throws: setupApiKey and the call reject with it.
FailSetup(c, err, answer, confirm) ==
    calls' = [calls EXCEPT ![c] = [IdleCall EXCEPT !.pc = "failed", !.err = err,
                                                   !.answer = answer,
                                                   !.confirm = confirm]]

\* promptForApiKey: the operator answers the question for the key.
OperatorAnswers(c, answer) ==
    /\ calls[c].pc = "prompt"
    /\ IF Trim(answer) = <<>> THEN FailSetup(c, "api_key_empty", answer, "<none>")
       ELSE IF ~StartsWithAIza(Trim(answer))
       THEN calls' = [calls EXCEPT ![c].pc = "confirm", ![c].apiKey = answer,
                                   ![c].answer = answer]
       ELSE calls' = [calls EXCEPT ![c].pc = "save", ![c].apiKey = Trim(answer),
                                   ![c].answer = answer]
    /\ UNCHANGED <<isInitialized, GGProfile, secretVars, cacheVars>>

\* String.prototype.toLowerCase on the answers to the confirmation.
toLowerCase(s) == IF s = "Y" THEN "y" ELSE s

\* What the operator may type at the confirmation.
Confirmations == {"y", "Y", "yes", "n", ""}

\* promptForApiKey: the operator answers "continue anyway?".
OperatorConfirms(c, confirm) ==
    /\ calls[c].pc = "confirm"
    /\ IF toLowerCase(confirm) # "y" /\ toLowerCase(confirm) # "yes"
       THEN FailSetup(c, "cancelled", calls[c].answer, confirm)
       ELSE calls' = [calls EXCEPT ![c].pc = "save",
                                   ![c].apiKey = Trim(calls[c].apiKey),
                                   ![c].confirm = confirm]
    /\ UNCHANGED <<isInitialized, GGProfile, secretVars, cacheVars>>

\* setupApiKey after the prompt: saveApiKey(apiKey); return apiKey
SetupSaves(c, iv) ==
    /\ calls[c].pc = "save"
    /\ saveApiKey(calls[c].apiKey, iv)
    /\ Goto(c, "finish")
    /\ UNCHANGED <<isInitialized, GGProfile, secretRet, cacheVars>>

\* ensureInitialized after setupApiKey: build the handle, set the flag.
FinishInit(c) ==
    /\ calls[c].pc = "finish"
    /\ GGProfile' = GGClient(calls[c].apiKey)
    /\ isInitialized' = TRUE
    /\ calls' = [calls EXCEPT ![c].pc = "afterInit", ![c].apiKey = <<>>,
                               ![c].answer = NoAnswer, ![c].confirm = "<none>"]
    /\ UNCHANGED <<secretVars, cacheVars>>

\* The files after responder's "create the settings cache if it is missing".
seedSettings(files) ==
    IF cacheExists(files, "settings") THEN files
    ELSE createCache(files, "settings", Normal).files

\* The loadCache call of responder.
loadSettings(files) == loadCache(files, "settings", Undefined)

\* responder after ensureInitialized, up to the await of PromptToGenerate:
\* seed the settings cache if there is no file, load it, pick the mode.
UseCache(c) ==
    /\ calls[c].pc = "afterInit"
    /\ IF ~GGProfile.some
       THEN /\ Fail(c, "not_initialized")
            /\ UNCHANGED cacheFiles
       ELSE LET r == loadSettings(seedSettings(cacheFiles))
                saw == FileKind(cacheFiles, "settings")
            IN  /\ cacheFiles' = r.files
                /\ IF ~r.ok
                   THEN calls' = [calls EXCEPT ![c] =
                            [IdleCall EXCEPT !.pc = "failed", !.err = "cache_error",
                                             !.cache = saw]]
                   ELSE calls' = [calls EXCEPT
                            ![c].pc = "buildPrompt",
                            ![c].cache = saw,
                            ![c].mode = IF r.val.instrutor = "chat_mode"
                                        THEN "chat_mode" ELSE "any",
                            ![c].handle = GGProfile]
    /\ UNCHANGED <<isInitialized, GGProfile, secretVars, cacheWrite, cacheRet>>

\* PromptToGenerate resolves and the handle's generate is called.
Generate(c) ==
    /\ calls[c].pc = "buildPrompt"
    /\ Goto(c, "requested")
    /\ UNCHANGED <<isInitialized, GGProfile, secretVars, cacheVars>>

\* The remote API answers, or the request fails.
RemoteAnswers(c, ok) ==
    /\ calls[c].pc = "requested"
    /\ IF ok THEN Goto(c, "done") ELSE Fail(c, "generate_error")
    /\ UNCHANGED <<isInitialized, GGProfile, secretVars, cacheVars>>

\* The caller has taken the outcome of a settled call; nothing refers to
\* the call any more.
Forget(c) ==
    /\ calls[c].pc \in {"done", "failed"}
    /\ calls' = [calls EXCEPT ![c] = IdleCall]
    /\ UNCHANGED <<isInitialized, GGProfile, secretVars, cacheVars>>

resetApiKey ==
    /\ deleteApiKey
    /\ isInitialized' = FALSE
    /\ GGProfile' = NoHandle
    /\ UNCHANGED <<calls, secretRet, cacheVars>>

\* The settings cache file is edited outside the program.
EditSettingsFile(text) ==
    /\ cacheFiles' = [cacheFiles EXCEPT !["settings"] = text]
    /\ UNCHANGED <<clientVars, secretVars, cacheWrite, cacheRet>>

\* The secret file is damaged outside the program.
EditSecretFile(text) ==
    /\ secretFile' = text
    /\ lastSave' = NoSave
    /\ UNCHANGED <<machine, encryptionKey, secretRet, clientVars, cacheVars>>

\* The program is started anew, on machine m: new FoxyClient().
NewFoxyClient(m) ==
    /\ construct(m)
    /\ isInitialized' = FALSE
    /\ GGProfile' = NoHandle
    /\ calls' = [c \in Calls |-> IdleCall]
    /\ UNCHANGED <<secretRet, cacheVars>>

InitClient ==
    /\ isInitialized = FALSE
    /\ GGProfile = NoHandle
    /\ calls = [c \in Calls |-> IdleCall]

NextClient ==
    \/ \E c \in Calls : StartResponder(c)
    \/ \E c \in Calls, a \in Answers : OperatorAnswers(c, a)
    \/ \E c \in Calls, y \in Confirmations : OperatorConfirms(c, y)
    \/ \E c \in Calls, iv \in IVs : SetupSaves(c, iv)
    \/ \E c \in Calls : FinishInit(c)
    \/ \E c \in Calls : UseCache(c)
    \/ \E c \in Calls : Generate(c)
    \/ \E c \in Calls, ok \in BOOLEAN : RemoteAnswers(c, ok)
    \/ \E c \in Calls : Forget(c)
    \/ resetApiKey
    \/ \E text \in ExternalContents : EditSettingsFile(text)
    \/ \E text \in DamagedRecords : EditSecretFile(text)
    \/ \E m \in Machines : NewFoxyClient(m)

\* At most one responder call is started and not yet forgotten.
OneAtATime ==
    \A c, d \in Calls : calls[c].pc # "idle" /\ calls[d].pc # "idle" => c = d

---------------------------------------------------------------------------
(* FoxyConfigManager: the project's .foxycfg file *)

VARIABLES configFile

\* A key that an object does not have.
Unset == "<unset>"

\* The fields of FoxyConfig that the commit flow branches on, and how a
\* partial object is written: a key it lacks holds Unset, in git too.
\* The booleans are written as JSON writes them.
TopKeys == {"conventionalCommits", "emojis"}
GitKeys == {"autoAdd", "autoCommit"}

DEFAULT_CONFIG ==
    [conventionalCommits |-> "true", emojis |-> "true", hasGit |-> TRUE,
     git |-> [autoAdd |-> "true", autoCommit |-> "false"]]

\* A partial configuration as the operator may write it.
UserConfig(conv, emo, hasGit, add, commit) ==
    [conventionalCommits |-> conv, emojis |-> emo, hasGit |-> hasGit,
     git |-> [autoAdd |-> add, autoCommit |-> commit]]

\* The file: absent, or a text that holds an object and parses or, for a
\* slip such as a trailing comma, does not.
NoConfigFile == [kind |-> "absent", parses |-> FALSE, obj |-> DEFAULT_CONFIG]

ConfigText(parses, obj) == [kind |-> "text", parses |-> parses, obj |-> obj]

\* { ...base, ...over } on the keys ks
spread(base, over, ks) ==
    [k \in ks |-> IF over[k] # Unset THEN over[k] ELSE base[k]]

loadConfig(file) ==
    IF file.kind = "absent" THEN DEFAULT_CONFIG
    ELSE IF ~file.parses THEN DEFAULT_CONFIG
    ELSE LET userConfig == file.obj
             top == spread(DEFAULT_CONFIG, userConfig, TopKeys)
         IN  [conventionalCommits |-> top.conventionalCommits,
              emojis |-> top.emojis,
              hasGit |-> TRUE,
              git |-> IF userConfig.hasGit
                      THEN spread(DEFAULT_CONFIG.git, userConfig.git, GitKeys)
                      ELSE DEFAULT_CONFIG.git]

\* saveConfig: JSON.stringify(config, null, 2) written to the file.
saveConfig(config) == ConfigText(TRUE, config)

\* { ...DEFAULT_CONFIG, ...existingConfig }: git is taken whole.
overDefaults(existing) ==
    LET top == spread(DEFAULT_CONFIG, existing, TopKeys)
    IN  [conventionalCommits |-> top.conventionalCommits,
         emojis |-> top.emojis,
         hasGit |-> TRUE,
         git |-> IF existing.hasGit THEN existing.git ELSE DEFAULT_CONFIG.git]

createDefaultConfig(file) ==
    IF file.kind # "absent" THEN saveConfig(overDefaults(loadConfig(file)))
    ELSE saveConfig(DEFAULT_CONFIG)

\* What the operator may leave in .foxycfg by hand.
UserConfigs ==
    {UserConfig(Unset, Unset, FALSE, Unset, Unset),
     UserConfig("false", "false", FALSE, Unset, Unset),
     UserConfig(Unset, Unset, TRUE, Unset, "true"),
     UserConfig(Unset, "false", TRUE, "false", "true"),
     UserConfig("false", Unset, TRUE, "false", Unset)}

UserFiles ==
    {ConfigText(TRUE, o) : o \in UserConfigs}
        \cup {ConfigText(FALSE, UserConfig(Unset, "false", TRUE, "false", "true"))}

---------------------------------------------------------------------------
(* index.ts: the --git commit flow *)

VARIABLES gitPc, porcelain, changes, config, lastInit, remote, message, ran

\* lastInit: the file before and after the latest createDefaultConfig.
\* remote: how the responder call of the message generator ended.
\* ran: what the flow has done from the commit message on, in order: the
\* message obtained ("message"), then the git commands that were run.
gitVars ==
    <<gitPc, porcelain, changes, config, lastInit, configFile, remote, message,
      ran>>

\* The two-character codes of `git status --porcelain` lines.
Codes == {<<"A", " ">>, <<" ", "M">>, <<"D", " ">>, <<"A", "M">>, <<"?", "?">>}

Paths == {<<"a">>, <<"a", "b">>}

\* A line of porcelain output, as git means it, and as git prints it.
StatusLines == [code : Codes, path : Paths]

lineText(l) == l.code \o <<" ">> \o l.path

\* What `git status --porcelain` prints for the lines ls.
RECURSIVE statusText(_)
statusText(ls) ==
    IF ls = <<>> THEN <<>>
    ELSE lineText(Head(ls)) \o <<"LF">> \o statusText(Tail(ls))

\* String.prototype.split('\n')
RECURSIVE SplitLines(_)
SplitLines(cs) ==
    IF \A i \in 1 .. Len(cs) : cs[i] # "LF" THEN <<cs>>
    ELSE LET j == CHOOSE i \in 1 .. Len(cs) :
                     cs[i] = "LF" /\ \A h \in 1 .. (i - 1) : cs[h] # "LF"
         IN  <<SubSeq(cs, 1, j - 1)>> \o SplitLines(SubSeq(cs, j + 1, Len(cs)))

\* String.prototype.substring(from, to) with 0-based bounds.
substring(s, from, to) ==
    SubSeq(s, (IF from < Len(s) THEN from ELSE Len(s)) + 1,
              IF to < Len(s) THEN to ELSE Len(s))

includes(s, ch) == \E i \in 1 .. Len(s) : s[i] = ch

NoChanges == [added |-> <<>>, modified |-> <<>>, deleted |-> <<>>]

\* The loop body of parseGitStatus: one line pushed onto the lists.
pushLine(acc, line) ==
    LET status == substring(line, 0, 2)
        file == substring(line, 3, Len(line))
    IN  [added |-> IF includes(status, "A") THEN Append(acc.added, file)
                   ELSE acc.added,
         modified |-> IF includes(status, "M") THEN Append(acc.modified, file)
                      ELSE acc.modified,
         deleted |-> IF includes(status, "D") THEN Append(acc.deleted, file)
                     ELSE acc.deleted]

RECURSIVE pushLines(_, _)
pushLines(acc, lines) ==
    IF lines = <<>> THEN acc
    ELSE pushLines(pushLine(acc, Head(lines)), Tail(lines))

parseGitStatus(status) ==
    LET lines == SelectSeq(SplitLines(status), LAMBDA line : Trim(line) # <<>>)
    IN  pushLines(NoChanges, lines)

\* The status text handleGitCommit works on: execSync(...).trim()
gitStatusOf(ls) == Trim(statusText(ls))

\* handleGitCommit is called in a directory that is, or is not, a repository.
HandleGitCommit(isRepo) ==
    /\ gitPc = "idle"
    /\ IF isRepo
       THEN gitPc' = "status" /\ config' = loadConfig(configFile)
       ELSE gitPc' = "end" /\ UNCHANGED config
    /\ UNCHANGED <<porcelain, changes, lastInit, configFile, remote, message, ran>>

NoInit == [some |-> FALSE, before |-> NoConfigFile, after |-> NoConfigFile]

\* foxy --git init: handleGitInit
HandleGitInit ==
    /\ gitPc = "idle"
    /\ configFile' = createDefaultConfig(configFile)
    /\ lastInit' = [some |-> TRUE, before |-> configFile,
                    after |-> createDefaultConfig(configFile)]
    /\ UNCHANGED <<gitPc, porcelain, changes, config, remote, message, ran>>

\* The operator edits, or removes, .foxycfg between invocations.
EditConfigFile(file) ==
    /\ gitPc = "idle"
    /\ configFile' = file
    /\ lastInit' = NoInit
    /\ UNCHANGED <<gitPc, porcelain, changes, config, remote, message, ran>>

\* git status --porcelain answers with the lines ls; the flow ends when
\* there is nothing to commit, and parses the status otherwise.
GitStatus(ls) ==
    /\ gitPc = "status"
    /\ porcelain' = ls
    /\ IF gitStatusOf(ls) = <<>>
       THEN gitPc' = "end" /\ UNCHANGED changes
       ELSE gitPc' = "generate" /\ changes' = parseGitStatus(gitStatusOf(ls))
    /\ UNCHANGED <<config, lastInit, configFile, remote, message, ran>>

\* DEFAULT_CONFIG.maxMessageLength; the model keeps the default.
maxMessageLength == 72

NoMessage == [kind |-> "none", emoji |-> FALSE, head |-> "", total |-> 0,
              text |-> <<>>]

\* A message written from a template: `${emoji}${head} ${total} arquivo(s)`
Template(emoji, head, total) ==
    [kind |-> "template", emoji |-> emoji, head |-> head, total |-> total,
     text |-> <<>>]

TextMessage(text) ==
    [kind |-> "text", emoji |-> FALSE, head |-> "", total |-> 0, text |-> text]

getFallbackMessage(chg, cfg) ==
    LET totalChanges == Len(chg.added) + Len(chg.modified) + Len(chg.deleted)
        emoji == cfg.emojis = "true"
    IN  IF cfg.conventionalCommits = "true"
        THEN IF Len(chg.added) > Len(chg.modified)
             THEN Template(emoji, "feat: adiciona", totalChanges)
             ELSE IF Len(chg.modified) > 0
             THEN Template(emoji, "fix: atualiza", totalChanges)
             ELSE Template(emoji, "chore: atualiza", totalChanges)
        ELSE Template(emoji, "Atualiza", totalChanges)

\* message.trim().replace(/['"]/g, '').replace(/\n/g, ' ').substring(0, max)
cleanMessage(text) ==
    LET unquoted == SelectSeq(Trim(text), LAMBDA ch : ch \notin {"'", "dquote"})
        oneLine == [i \in 1 .. Len(unquoted) |->
                       IF unquoted[i] = "LF" THEN " " ELSE unquoted[i]]
    IN  substring(oneLine, 0, maxMessageLength)

\* How the responder call made by the generator can end: the call rejects,
\* the promise it returns for the answer rejects, or the answer arrives.
RemoteOutcomes == {"responder_rejects", "response_rejects", "answered"}

RemoteMessages == {<<"o", "k">>, <<" ", "'", "o", "LF", "k", "LF">>}

\* The try block of generateConventionalCommit and generateSimpleCommit
\* with no catch around the awaited answer.
generateCommitMessageNoCatch(chg, cfg, outcome, answer) ==
    IF outcome = "answered"
    THEN [ok |-> TRUE, val |-> TextMessage(cleanMessage(answer))]
    ELSE IF outcome = "responder_rejects"
    THEN [ok |-> TRUE, val |-> getFallbackMessage(chg, cfg)]
    ELSE [ok |-> FALSE, val |-> NoMessage]

\* generateCommitMessage: both branches await responder and the answer
\* inside one try and fall back in the catch.
generateCommitMessage(chg, cfg, outcome, answer) ==
    IF outcome = "answered"
    THEN [ok |-> TRUE, val |-> TextMessage(cleanMessage(answer))]
    ELSE [ok |-> TRUE, val |-> getFallbackMessage(chg, cfg)]

\* The generator settles; a rejection would land in handleGitCommit's catch.
CommitMessageSettles(outcome, answer) ==
    /\ gitPc = "generate"
    /\ LET r == generateCommitMessage(changes, config, outcome, answer)
       IN  /\ gitPc' = IF r.ok THEN "stage" ELSE "end"
           /\ message' = r.val
           /\ ran' = IF r.ok THEN Append(ran, "message") ELSE ran
    /\ remote' = outcome
    /\ UNCHANGED <<porcelain, changes, config, lastInit, configFile>>

\* Both commands run whatever the configuration says.
commandsRunUngated(cfg, addOk, commitOk) == <<"add", "commit">>

\* The commands run after the message is known: `git add .` if autoAdd,
\* then `git commit -m ...` if autoCommit; a command that fails throws,
\* which ends the flow in handleGitCommit's catch.
commandsRun(cfg, addOk, commitOk) ==
    LET add == IF cfg.git.autoAdd = "true" THEN <<"add">> ELSE <<>>
        reachesCommit == cfg.git.autoAdd # "true" \/ addOk
        commit == IF reachesCommit /\ cfg.git.autoCommit = "true"
                  THEN <<"commit">> ELSE <<>>
    IN  add \o commit

\* handleGitCommit from the message to its end.
StageAndCommit(addOk, commitOk) ==
    /\ gitPc = "stage"
    /\ ran' = ran \o commandsRun(config, addOk, commitOk)
    /\ gitPc' = "end"
    /\ UNCHANGED <<porcelain, changes, config, lastInit, configFile, remote,
                   message>>

\* The invocation is over; the next one starts afresh.
GitExit ==
    /\ gitPc = "end"
    /\ gitPc' = "idle"
    /\ porcelain' = <<>>
    /\ changes' = NoChanges
    /\ config' = DEFAULT_CONFIG
    /\ remote' = "none"
    /\ message' = NoMessage
    /\ ran' = <<>>
    /\ UNCHANGED <<lastInit, configFile>>

InitGit ==
    /\ gitPc = "idle"
    /\ porcelain = <<>>
    /\ changes = NoChanges
    /\ config = DEFAULT_CONFIG
    /\ lastInit = NoInit
    /\ configFile = NoConfigFile
    /\ remote = "none"
    /\ message = NoMessage
    /\ ran = <<>>

NextGit ==
    \/ \E isRepo \in BOOLEAN : HandleGitCommit(isRepo)
    \/ HandleGitInit
    \/ \E file \in UserFiles \cup {NoConfigFile} : EditConfigFile(file)
    \/ gitPc = "status" /\ \E ls \in SeqsUpTo(StatusLines, MaxLines) : GitStatus(ls)
    \/ \E outcome \in RemoteOutcomes, answer \in RemoteMessages :
           CommitMessageSettles(outcome, answer)
    \/ \E addOk \in BOOLEAN, commitOk \in BOOLEAN : StageAndCommit(addOk, commitOk)
    \/ GitExit

---------------------------------------------------------------------------
(* index.ts: one invocation of the command after another *)

VARIABLES cli

\* The options and arguments of an invocation.
Options ==
    [resetKey : BOOLEAN, setup : BOOLEAN, git : {"none", "init", "commit"},
     question : BOOLEAN]

NoOptions == [resetKey |-> FALSE, setup |-> FALSE, git |-> "none",
              question |-> FALSE]

\* exit: "ok" when the action returns, "error" for process.exit(1).
CliIdle == [pc |-> "idle", options |-> NoOptions, exit |-> "none"]

CliEnds(exit) == cli' = [cli EXCEPT !.pc = "ended", !.exit = exit]

\* The steps that take a responder call forward once it has started.
CallSteps(c) ==
    \/ \E a \in Answers : OperatorAnswers(c, a)
    \/ \E y \in Confirmations : OperatorConfirms(c, y)
    \/ \E iv \in IVs : SetupSaves(c, iv)
    \/ FinishInit(c)
    \/ UseCache(c)
    \/ Generate(c)
    \/ \E ok \in BOOLEAN : RemoteAnswers(c, ok)

\* The process starts, on machine m: the module creates its FoxyClient and
\* the action is entered with the parsed options.
CliStart(o, m) ==
    /\ cli.pc = "idle"
    /\ NewFoxyClient(m)
    /\ cli' = [pc |-> "options", options |-> o, exit |-> "none"]
    /\ UNCHANGED gitVars

\* --reset-key and --setup
CliOptions ==
    /\ cli.pc = "options"
    /\ IF cli.options.resetKey THEN resetApiKey /\ CliEnds("ok")
       ELSE IF cli.options.setup
       THEN resetApiKey /\ cli' = [cli EXCEPT !.pc = "dispatch"]
       ELSE /\ cli' = [cli EXCEPT !.pc = "dispatch"]
            /\ UNCHANGED <<secretVars, clientVars, cacheVars>>
    /\ UNCHANGED gitVars

\* --git init, --git, no question, or a question
CliDispatch ==
    /\ cli.pc = "dispatch"
    /\ IF cli.options.git = "init"
       THEN /\ HandleGitInit
            /\ CliEnds("ok")
            /\ UNCHANGED <<secretVars, clientVars, cacheVars>>
       ELSE IF cli.options.git = "commit"
       THEN /\ \E isRepo \in BOOLEAN : HandleGitCommit(isRepo)
            /\ cli' = [cli EXCEPT !.pc = "git"]
            /\ UNCHANGED <<secretVars, clientVars, cacheVars>>
       ELSE IF ~cli.options.question
       THEN /\ CliEnds("ok")
            /\ UNCHANGED <<secretVars, clientVars, cacheVars, gitVars>>
       ELSE /\ StartResponder(1)
            /\ cli' = [cli EXCEPT !.pc = "asking"]
            /\ UNCHANGED gitVars

\* The responder call made for the question, or for the commit message,
\* goes on.
CliCall ==
    /\ cli.pc \in {"asking", "git"}
    /\ CallSteps(1)
    /\ UNCHANGED <<cli, gitVars>>

\* await responder / await responded in the action: the answer is printed,
\* or the catch prints the error and exits with status 1.
CliAnswered ==
    /\ cli.pc = "asking"
    /\ calls[1].pc \in {"done", "failed"}
    /\ CliEnds(IF calls[1].pc = "done" THEN "ok" ELSE "error")
    /\ UNCHANGED <<secretVars, clientVars, cacheVars, gitVars>>

CliGitStatus ==
    /\ cli.pc = "git"
    /\ gitPc = "status"
    /\ \E ls \in SeqsUpTo(StatusLines, MaxLines) : GitStatus(ls)
    /\ UNCHANGED <<cli, secretVars, clientVars, cacheVars>>

\* generateCommitMessage calls responder.
CliGenerate ==
    /\ cli.pc = "git"
    /\ gitPc = "generate"
    /\ StartResponder(1)
    /\ UNCHANGED <<cli, gitVars>>

\* How the generator sees the end of its responder call.
outcomeOf(call) ==
    IF call.pc = "done" THEN "answered"
    ELSE IF call.err = "generate_error" THEN "response_rejects"
    ELSE "responder_rejects"

CliCommitMessage ==
    /\ cli.pc = "git"
    /\ calls[1].pc \in {"done", "failed"}
    /\ \E answer \in RemoteMessages :
          CommitMessageSettles(outcomeOf(calls[1]), answer)
    /\ UNCHANGED <<cli, secretVars, clientVars, cacheVars>>

CliStageAndCommit ==
    /\ cli.pc = "git"
    /\ \E addOk \in BOOLEAN, commitOk \in BOOLEAN : StageAndCommit(addOk, commitOk)
    /\ UNCHANGED <<cli, secretVars, clientVars, cacheVars>>

\* handleGitCommit returns, and the action with it.
CliGitReturns ==
    /\ cli.pc = "git"
    /\ gitPc = "end"
    /\ CliEnds("ok")
    /\ UNCHANGED <<secretVars, clientVars, cacheVars, gitVars>>

\* The process is gone; the next invocation may start.
CliExit ==
    /\ cli.pc = "ended"
    /\ cli' = CliIdle
    /\ IF gitPc = "end" THEN GitExit ELSE UNCHANGED gitVars
    /\ UNCHANGED <<secretVars, clientVars, cacheVars>>

\* Between invocations the secret file is damaged.
CliSecretDamaged(text) ==
    /\ cli.pc = "idle"
    /\ EditSecretFile(text)
    /\ UNCHANGED <<cli, gitVars>>

InitCli == cli = CliIdle

NextCli ==
    \/ \E o \in Options : CliStart(o, machine)
    \/ CliOptions
    \/ CliDispatch
    \/ CliCall
    \/ CliAnswered
    \/ CliGitStatus
    \/ CliGenerate
    \/ CliCommitMessage
    \/ CliStageAndCommit
    \/ CliGitReturns
    \/ CliExit

\* Invocations without --git, on a machine that may differ from run to run
\* and with a secret file that may be damaged between runs.
NextRuns ==
    \/ \E o \in {p \in Options : p.git = "none"}, m \in Machines : CliStart(o, m)
    \/ \E text \in DamagedRecords : CliSecretDamaged(text)
    \/ CliOptions
    \/ CliDispatch
    \/ CliCall
    \/ CliAnswered
    \/ CliExit

\* MODEL-END

---------------------------------------------------------------------------
(* Specifications *)

vars == <<secretVars, cacheVars, clientVars, gitVars, cli>>

Init == InitSecret /\ InitCache /\ InitClient /\ InitGit /\ InitCli

\* The credential store driven through its public operations.
SpecSecret == Init /\ [][NextSecret /\ UNCHANGED <<cacheVars, clientVars, gitVars, cli>>]_vars

\* The cache controller driven through its public operations.
SpecCache ==
    Init /\ [][NextCache /\ UNCHANGED <<secretVars, clientVars, gitVars, cli>>]_vars

\* The client: responder calls, the operator, the remote API and the
\* environment.
Spec == Init /\ [][NextClient /\ UNCHANGED <<gitVars, cli>>]_vars

\* The client used by one caller that awaits each responder call before
\* making the next.
SpecSequential ==
    Init /\ [][NextClient /\ OneAtATime' /\ UNCHANGED <<gitVars, cli>>]_vars

\* One invocation of the CLI with --git after another.
SpecGit ==
    Init /\ [][NextGit /\ UNCHANGED <<secretVars, cacheVars, clientVars, cli>>]_vars

\* The command line: invocations of foxy, one process after another.
SpecCli == Init /\ [][NextCli]_vars

\* Questions asked run after run.
SpecRuns == Init /\ [][NextRuns]_vars

---------------------------------------------------------------------------
(* Credential store: round trip and failure outcomes *)

WellFormed(s) == \A i \in 1 .. Len(s) : s[i] # "uD800"

LoadedUnderSaveKey ==
    /\ secretRet.op = "loadApiKey"
    /\ lastSave.some
    /\ lastSave.key = encryptionKey

\* C1 as stated: for every secret string s, once saveApiKey(s) has run, a
\* loadApiKey under the same derived key returns exactly s, the most
\* recently saved secret.
C1_RoundTripEveryString ==
    LoadedUnderSaveKey => (secretRet.ok /\ secretRet.val = lastSave.secret)

\* C1 amended: for every secret string s without an unpaired surrogate,
\* once saveApiKey(s) has run, a loadApiKey under the same derived key
\* returns exactly s, whatever was saved before it; for any s at all the
\* load succeeds.
C1_RoundTripWellFormed ==
    LoadedUnderSaveKey =>
        /\ secretRet.ok
        /\ WellFormed(lastSave.secret) => secretRet.val = lastSave.secret

C1_Witness ==
    /\ LoadedUnderSaveKey
    /\ lastSave.overwrote
    /\ Len(lastSave.secret) = MaxSecretLen
    /\ secretRet.val = lastSave.secret

\* C2: hasApiKey() is true iff the secret file is present; when it is
\* absent loadApiKey() fails with "not found" and leaves the store as it
\* was; after saveApiKey the file is present and after deleteApiKey it is
\* not.
C2_ExistsIffPresent ==
    /\ [](secretRet.op = "hasApiKey" => (secretRet.ok <=> secretFile # Absent))
    /\ [](secretRet.op = "loadApiKey" /\ secretFile = Absent
            => ~secretRet.ok /\ secretRet.err = "not_found")
    /\ [](secretRet.op = "saveApiKey" => hasApiKey)
    /\ [](secretRet.op = "deleteApiKey" => ~hasApiKey)
    /\ [][secretRet'.op = "loadApiKey" => secretFile' = secretFile]_vars

C2_Witness ==
    /\ secretRet.op = "loadApiKey"
    /\ secretFile = Absent
    /\ secretRet.err = "not_found"

\* C3 as stated: a loadApiKey under a derived key other than the one the
\* record was saved under always fails with the decryption error and never
\* returns a string.
C3_WrongKeyAlwaysFails ==
    (secretRet.op = "loadApiKey" /\ lastSave.some /\ lastSave.key # encryptionKey)
        => (~secretRet.ok /\ secretRet.err = "load_error")

\* The record's halves around its first ':': one is missing or empty.
Malformed(file) ==
    /\ file # Absent
    /\ \/ \A i \in 1 .. Len(file) : file[i] # ":"
       \/ file[1] = ":"
       \/ \E j \in 1 .. Len(file) :
              /\ file[j] = ":"
              /\ \A h \in 1 .. (j - 1) : file[h] # ":"
              /\ j = Len(file)

\* C11 as stated: loadApiKey on a present record whose IV half or
\* ciphertext half is missing or empty fails with the malformed-record
\* error, which is neither the not-found error nor the decryption error,
\* and leaves the file as it was.
C11_MalformedRecordError ==
    (secretRet.op = "loadApiKey" /\ Malformed(secretFile))
        => /\ ~secretRet.ok
           /\ secretRet.err = "load_error"
           /\ secretRet.cause = "format_error"

---------------------------------------------------------------------------
(* Cache controller: loading, saving and creating entries *)

Registered(k) == k \in {"settings", "prefs"}

\* The default a schema declares itself, if any.
IntrinsicDefault(k) == IF k = "prefs" THEN Normal ELSE Undefined

\* The default a call can fall back on: the caller's, else the schema's.
AvailableDefault(k, d) == IF d # Undefined THEN d ELSE IntrinsicDefault(k)

SatisfiesSchema(v) == v.t = "obj" /\ v.instrutor \in {"chat_mode", "normal"}

OnlySchemaKeys(v) == v.extra = "<none>"

\* What the schema makes of a value that satisfies it.
ParsedForm(v) == Obj(v.instrutor, "<none>")

FileHolds(k, v) == cacheFiles[k] = [kind |-> "json", val |-> v]

Did(op) == cacheRet.op = op /\ Registered(cacheRet.key)

\* C4: a loadCache of a registered key whose file exists but does not parse
\* or fails the schema returns the available default, taken from the
\* default and not from the file, after overwriting the file with it; with
\* no default available it fails and leaves the file as it was.
C4_InvalidFileNeverReturned ==
    (Did("loadCache") /\ cacheRet.before.kind \in {"unparsable", "invalid"}) =>
        LET k == cacheRet.key
            d == AvailableDefault(k, cacheRet.arg)
        IN  IF d # Undefined
            THEN /\ cacheRet.ok
                 /\ cacheRet.val = d
                 /\ cacheRet.from = "default"
                 /\ FileHolds(k, d)
            ELSE /\ ~cacheRet.ok
                 /\ cacheRet.err # ""
                 /\ cacheRet.from = "none"
                 /\ cacheFiles[k] = cacheRet.before.file

C4_Witness ==
    /\ Did("loadCache")
    /\ cacheRet.before.kind = "invalid"
    /\ cacheRet.arg = Undefined
    /\ cacheRet.ok
    /\ cacheFiles[cacheRet.key] # cacheRet.before.file

\* C5 as stated: when responder reaches its cache step with an existing
\* 'settings' file whose content violates SettingsSchema, that step leaves
\* {instrutor: "normal"} in the file and the call goes on to the remote
\* generation call; it does not end in an error.
C5_InvalidCacheNeverFatal ==
    [][\A c \in Calls :
          (calls[c].cache = "" /\ calls'[c].cache = "invalid")
              => /\ calls'[c].pc = "buildPrompt"
                 /\ cacheFiles'["settings"] = JSONstringify(Normal)]_vars

\* C6: saveCache of a schema-violating value on a registered key succeeds
\* with a warning and leaves exactly that value in the file; a later
\* loadCache of that file fails when no default is available, and with an
\* explicit default D returns D and leaves D in the file.
C6_InvalidSavePersists ==
    /\ (Did("saveCache") /\ ~SatisfiesSchema(cacheRet.arg)) =>
            /\ cacheRet.ok
            /\ cacheRet.warned
            /\ FileHolds(cacheRet.key, cacheRet.arg)
    /\ (/\ Did("loadCache")
        /\ cacheRet.before.write.by = "saveCache"
        /\ ~SatisfiesSchema(cacheRet.before.write.val)) =>
            /\ AvailableDefault(cacheRet.key, cacheRet.arg) = Undefined
                   => ~cacheRet.ok /\ cacheRet.err # ""
            /\ cacheRet.arg # Undefined
                   => /\ cacheRet.ok
                      /\ cacheRet.val = cacheRet.arg
                      /\ FileHolds(cacheRet.key, cacheRet.arg)

C6_Witness ==
    /\ Did("loadCache")
    /\ cacheRet.before.write.by = "saveCache"
    /\ ~SatisfiesSchema(cacheRet.before.write.val)
    /\ cacheRet.arg = Normal
    /\ cacheRet.ok

LoadedMissingWithDefault ==
    Did("loadCache") /\ cacheRet.before.kind = "absent" /\ cacheRet.arg # Undefined

LoadedAfterLoadDefault ==
    /\ Did("loadCache")
    /\ cacheRet.arg = Undefined
    /\ cacheRet.before.write.by = "loadCache"

C7_FirstLoad ==
    /\ LoadedMissingWithDefault =>
            /\ cacheRet.ok
            /\ cacheRet.val = cacheRet.arg
            /\ cacheFiles[cacheRet.key].kind # "absent"
            /\ FileHolds(cacheRet.key, cacheRet.arg)
    /\ (/\ Did("loadCache")
        /\ cacheRet.before.kind = "absent"
        /\ AvailableDefault(cacheRet.key, cacheRet.arg) = Undefined) =>
            /\ ~cacheRet.ok
            /\ cacheRet.err = "not_found"
            /\ cacheFiles[cacheRet.key].kind = "absent"

\* C7 as stated: with no file, loadCache(key, D) returns D and persists it,
\* so the file exists afterwards and a subsequent loadCache(key) returns D;
\* with no default at all it fails with "not found" and creates no file.
C7_MissingFileDefault ==
    /\ C7_FirstLoad
    /\ LoadedAfterLoadDefault =>
            cacheRet.ok /\ cacheRet.val = cacheRet.before.write.val

\* C7 amended: ... and a subsequent loadCache(key) returns D provided D
\* satisfies the schema and has no keys beyond the schema's (for any D that
\* satisfies the schema it returns D reduced to the schema's keys).
C7_MissingFileValidDefault ==
    /\ C7_FirstLoad
    /\ (LoadedAfterLoadDefault /\ SatisfiesSchema(cacheRet.before.write.val)) =>
            /\ cacheRet.ok
            /\ cacheRet.val = ParsedForm(cacheRet.before.write.val)
            /\ OnlySchemaKeys(cacheRet.before.write.val)
                   => cacheRet.val = cacheRet.before.write.val

C7_Witness ==
    /\ LoadedAfterLoadDefault
    /\ cacheRet.key = "settings"
    /\ cacheRet.ok
    /\ cacheRet.val = cacheRet.before.write.val

CacheOps == {"loadCache", "saveCache", "createCache"}

\* C8: loadCache, saveCache and createCache on a key outside the registry
\* fail with an error, with or without a file and with or without a
\* default, and change no cache file.
C8_UnregisteredAlwaysFails ==
    /\ []((cacheRet.op \in CacheOps /\ ~Registered(cacheRet.key)) =>
            /\ ~cacheRet.ok
            /\ cacheRet.err = "schema_not_found"
            /\ cacheFiles[cacheRet.key] = cacheRet.before.file)
    /\ [][(/\ cacheRet'.op \in CacheOps
           /\ ~Registered(cacheRet'.key)
           /\ cacheRet' # cacheRet) => cacheFiles' = cacheFiles]_vars

C8_Witness ==
    /\ cacheRet.op = "createCache"
    /\ ~Registered(cacheRet.key)
    /\ cacheRet.arg # Undefined
    /\ cacheRet.before.kind # "absent"
    /\ ~cacheRet.ok

C9_Create ==
    (Did("createCache") /\ cacheRet.arg # Undefined) =>
        /\ cacheRet.ok
        /\ cacheRet.val = cacheRet.arg
        /\ FileHolds(cacheRet.key, cacheRet.arg)

LoadedAfterCreate ==
    /\ Did("loadCache")
    /\ cacheRet.arg = Undefined
    /\ cacheRet.before.write.by = "createCache"
    /\ SatisfiesSchema(cacheRet.before.write.val)

\* C9 as stated: createCache(key, D) on a registered key persists D over
\* whatever the file held and returns D, and a following loadCache(key)
\* returns D whenever D satisfies the schema.
C9_CreateThenLoad ==
    /\ C9_Create
    /\ LoadedAfterCreate => (cacheRet.ok /\ cacheRet.val = cacheRet.before.write.val)

\* C9 amended: ... and a following loadCache(key) returns D whenever D
\* satisfies the schema and has no keys beyond the schema's (for any D that
\* satisfies the schema it returns D reduced to the schema's keys).
C9_CreateThenLoadParsed ==
    /\ C9_Create
    /\ LoadedAfterCreate =>
            /\ cacheRet.ok
            /\ cacheRet.val = ParsedForm(cacheRet.before.write.val)
            /\ OnlySchemaKeys(cacheRet.before.write.val)
                   => cacheRet.val = cacheRet.before.write.val

C9_Witness ==
    /\ Did("createCache")
    /\ cacheRet.arg \notin {Undefined, IntrinsicDefault(cacheRet.key)}
    /\ cacheRet.before.kind = "invalid"
    /\ FileHolds(cacheRet.key, cacheRet.arg)

\* The cache files as they were before the last call.
FilesBefore == [cacheFiles EXCEPT ![cacheRet.key] = cacheRet.before.file]

SameOutcome(r) ==
    /\ cacheRet.ok = r.ok
    /\ cacheRet.err = r.err
    /\ cacheRet.val = r.val
    /\ cacheFiles = r.files

OmittedIntrinsic(op) ==
    /\ cacheRet.op = op
    /\ IntrinsicDefault(cacheRet.key) # Undefined
    /\ cacheRet.arg = Undefined

\* C10: for a key whose schema declares an intrinsic default I, a loadCache
\* or createCache that omits the default has the outcome, the returned
\* value and the resulting file of the same call with I passed explicitly,
\* whatever the file held.
C10_IntrinsicAsExplicit ==
    /\ OmittedIntrinsic("loadCache") =>
            SameOutcome(loadCache(FilesBefore, cacheRet.key, IntrinsicDefault(cacheRet.key)))
    /\ OmittedIntrinsic("createCache") =>
            SameOutcome(createCache(FilesBefore, cacheRet.key, IntrinsicDefault(cacheRet.key)))

C10_Witness ==
    /\ OmittedIntrinsic("loadCache")
    /\ cacheRet.before.kind = "unparsable"
    /\ cacheRet.ok
    /\ FileHolds(cacheRet.key, Normal)

---------------------------------------------------------------------------
(* Setting up the API key *)

Blank(s) == \A i \in 1 .. Len(s) : s[i] = " "

ExpectedPrefix == <<"A", "I", "z", "a">>

\* The value, leading blanks aside, begins with the expected prefix.
HasExpectedPrefix(s) ==
    \E i \in 1 .. Len(s) :
        /\ \A h \in 1 .. (i - 1) : s[h] = " "
        /\ Len(s) >= i + Len(ExpectedPrefix) - 1
        /\ \A j \in 1 .. Len(ExpectedPrefix) : s[i + j - 1] = ExpectedPrefix[j]

Declined(c) == calls[c].confirm \notin {"<none>", "y", "Y", "yes"}

Cancelled(c) ==
    calls[c].pc = "failed" /\ calls[c].err \in {"api_key_empty", "cancelled"}

\* The operator has answered and promptForApiKey has run to its end.
PromptOver(c) == calls[c].answer # NoAnswer /\ calls[c].pc # "confirm"

\* C12: setupApiKey fails with a cancellation error, leaving the secret
\* file as it was, exactly when the operator submits an empty (blank) value
\* or submits a value without the prefix "AIza" and then declines the
\* confirmation; otherwise it saves the submitted value, trimmed, and
\* returns it, and a loadApiKey right after the save returns that value.
C12_SetupApiKey ==
    /\ [](\A c \in Calls : PromptOver(c) =>
            /\ Cancelled(c) <=>
                   \/ Blank(calls[c].answer)
                   \/ ~HasExpectedPrefix(calls[c].answer) /\ Declined(c)
            /\ ~Cancelled(c) =>
                   /\ calls[c].pc \in {"save", "finish"}
                   /\ calls[c].apiKey = Trim(calls[c].answer))
    /\ [][\A c \in Calls :
            /\ (calls[c].pc \in {"prompt", "confirm"} /\ calls'[c].pc = "failed")
                  => secretFile' = secretFile
            /\ (calls[c].pc = "save" /\ calls'[c].pc = "finish")
                  => /\ calls'[c].apiKey = calls[c].apiKey
                     /\ LET r == loadOutcome(encryptionKey', secretFile')
                        IN  r.ok /\ r.val = calls'[c].apiKey]_vars

C12_Witness ==
    \E c \in Calls :
        /\ calls[c].pc = "finish"
        /\ calls[c].confirm = "Y"
        /\ lastSave.overwrote
        /\ loadOutcome(encryptionKey, secretFile).val = calls[c].apiKey

---------------------------------------------------------------------------
(* The --git commit flow *)

\* The paths of the lines whose code contains ch, in the order of the lines.
RECURSIVE PathsWith(_, _)
PathsWith(ls, ch) ==
    IF ls = <<>> THEN <<>>
    ELSE (IF \E i \in 1 .. 2 : Head(ls).code[i] = ch THEN <<Head(ls).path>>
          ELSE <<>>) \o PathsWith(Tail(ls), ch)

\* C13 as stated: the change set handed to the commit-message generator
\* holds, for every porcelain line including the first, the line's path in
\* added iff its code contains 'A', in modified iff it contains 'M', in
\* deleted iff it contains 'D'.
C13_StatusClassification ==
    gitPc = "generate" =>
        changes = [added |-> PathsWith(porcelain, "A"),
                   modified |-> PathsWith(porcelain, "M"),
                   deleted |-> PathsWith(porcelain, "D")]

\* The head of the templated message for na added and nm modified files.
FallbackHead(na, nm, conventional) ==
    CASE ~conventional -> "Atualiza"
      [] conventional /\ na > nm -> "feat: adiciona"
      [] conventional /\ na <= nm /\ nm > 0 -> "fix: atualiza"
      [] OTHER -> "chore: atualiza"

Rejected == remote \in {"responder_rejects", "response_rejects"}

\* C14: whenever the responder call or the awaited answer fails,
\* generateCommitMessage still returns a message, and it is the templated
\* one, fixed by the numbers of added, modified and deleted files and by
\* the emojis and conventionalCommits settings.
C14_FallbackOnRemoteError ==
    Rejected =>
        message = Template(config.emojis = "true",
                           FallbackHead(Len(changes.added), Len(changes.modified),
                                        config.conventionalCommits = "true"),
                           Len(changes.added) + Len(changes.modified)
                               + Len(changes.deleted))

C14_Witness ==
    /\ remote = "response_rejects"
    /\ message.kind = "template"
    /\ message.head = "fix: atualiza"
    /\ ~message.emoji
    /\ message.total = MaxLines

---------------------------------------------------------------------------
(* The project configuration file *)

\* Every key set in the object before holds the same value after, and
\* every key not set holds the default.
MergedOnto(before, after) ==
    /\ \A k \in TopKeys :
          after[k] = IF before[k] # Unset THEN before[k] ELSE DEFAULT_CONFIG[k]
    /\ \A k \in GitKeys :
          after.git[k] = IF before.hasGit /\ before.git[k] # Unset
                         THEN before.git[k] ELSE DEFAULT_CONFIG.git[k]

\* C15 as stated: createDefaultConfig on an existing .foxycfg, whatever
\* its content, keeps every top-level and git value the operator had set,
\* fills only the missing fields from the defaults, and run once more
\* leaves the file as the first run left it.
C15_InitKeepsOperatorValues ==
    (lastInit.some /\ lastInit.before.kind = "text") =>
        /\ lastInit.after.parses
        /\ MergedOnto(lastInit.before.obj, lastInit.after.obj)
        /\ createDefaultConfig(lastInit.after) = lastInit.after

---------------------------------------------------------------------------
(* The command line *)

\* C16 as stated: an invocation with --setup that ends without error has
\* removed the stored key, prompted the operator and saved a new secret,
\* whether it comes with no question, with a question or with --git.
C16_SetupForcesNewKey ==
    (cli.pc = "ended" /\ cli.exit = "ok" /\ cli.options.setup
       /\ ~cli.options.resetKey)
        => (hasApiKey /\ lastSave.some)

---------------------------------------------------------------------------
(* The client under concurrent calls *)

\* A call is obtaining the credential: it prompts, or saves, or is about to
\* build the handle.
Obtaining(c) == calls[c].pc \in {"prompt", "confirm", "save", "finish"}

\* C17 as stated: under any interleaving of responder calls on one client
\* the credential is obtained and the handle is created at most once
\* between resetApiKey calls: no call starts to obtain the credential while
\* another is doing so, no call builds a handle when the client is
\* initialised, and every generation request goes through a handle.
C17_InitialisedOnce ==
    /\ [](\A c, d \in Calls : Obtaining(c) /\ Obtaining(d) => c = d)
    /\ [][\A c \in Calls :
            (calls[c].pc = "finish" /\ calls'[c].pc = "afterInit")
                => ~isInitialized]_vars
    /\ [](\A c \in Calls : calls[c].pc = "requested" => calls[c].handle.some)

---------------------------------------------------------------------------
(* What loadCache hands out *)

LoadedOk == Did("loadCache") /\ cacheRet.ok

ValidAfterLoad ==
    /\ SatisfiesSchema(cacheRet.val)
    /\ FileKind(cacheFiles, cacheRet.key) = "valid"

\* C18 as stated: for every file state and every caller-supplied default,
\* a successful loadCache of a registered key returns a value that
\* satisfies the key's schema and leaves a schema-valid value in the file.
C18_LoadReturnsValid == LoadedOk => ValidAfterLoad

\* C18 amended: ... for every file state and every caller-supplied default
\* that itself satisfies the key's schema (or no default at all).
C18_LoadReturnsValidGivenValidDefault ==
    (LoadedOk /\ (cacheRet.arg = Undefined \/ SatisfiesSchema(cacheRet.arg)))
        => ValidAfterLoad

C18_Witness ==
    /\ LoadedOk
    /\ cacheRet.before.kind = "unparsable"
    /\ cacheRet.arg # Undefined
    /\ SatisfiesSchema(cacheRet.arg)
    /\ cacheRet.val = cacheRet.arg
    /\ FileHolds(cacheRet.key, cacheRet.arg)

---------------------------------------------------------------------------
(* What ensureInitialized leaves behind *)

\* C19: when ensureInitialized completes successfully in a call, the secret
\* file exists and loadApiKey returns the credential that the handle holds;
\* when the stored record cannot be loaded the operator is prompted and the
\* record is left as it is until the new secret is saved; the secret saved
\* over it is the one the handle holds.
C19_InitPostcondition ==
    [][\A c \in Calls :
          /\ (calls[c].pc \in {"idle", "finish"} /\ calls'[c].pc = "afterInit")
                => /\ secretFile' # Absent
                   /\ GGProfile'.some
                   /\ LET r == loadOutcome(encryptionKey', secretFile')
                      IN  r.ok /\ r.val = GGProfile'.apiKey
          /\ (/\ calls[c].pc = "idle" /\ calls'[c].pc # "idle"
              /\ ~(isInitialized /\ GGProfile.some)
              /\ hasApiKey /\ ~loadOutcome(encryptionKey, secretFile).ok)
                => calls'[c].pc = "prompt" /\ secretFile' = secretFile
          /\ (calls[c].pc = "finish" /\ calls'[c].pc = "afterInit")
                => /\ lastSave'.some
                   /\ GGProfile'.apiKey = lastSave'.secret]_vars

\* A run has replaced a record it could not load and holds the new secret.
C19_Witness ==
    \E c \in Calls :
        /\ calls[c].pc = "afterInit"
        /\ lastSave.some /\ lastSave.overwrote
        /\ GGProfile.some /\ GGProfile.apiKey = lastSave.secret
        /\ loadOutcome(encryptionKey, secretFile).ok
        /\ loadOutcome(encryptionKey, secretFile).val = GGProfile.apiKey

---------------------------------------------------------------------------
(* The --git flow: what is run, and in which order *)

\* Where in ran the entry what stands, 0 when it is not there.
Position(what) ==
    IF \E i \in 1 .. Len(ran) : ran[i] = what
    THEN CHOOSE i \in 1 .. Len(ran) : ran[i] = what
    ELSE 0

Staged == Position("add") # 0

Committed == Position("commit") # 0

\* C20: in the --git flow nothing is staged or committed when the directory
\* is not a repository or the status is empty; git add runs only with
\* git.autoAdd true and only after the commit message has been generated;
\* git commit runs only with git.autoCommit true and only after the staging
\* step (it is the last thing run, and git add has run before it whenever
\* git.autoAdd is true); with git.autoCommit false no commit is created.
C20_GatedAndOrdered ==
    /\ [](gitPc \in {"idle", "status", "generate"} => ran = <<>>)
    /\ []((gitPc = "end" /\ gitStatusOf(porcelain) = <<>>) => ran = <<>>)
    /\ [][(gitPc = "idle" /\ gitPc' = "end") => ran' = <<>>]_vars
    /\ [](Staged => /\ config.git.autoAdd = "true"
                    /\ Position("message") # 0
                    /\ Position("message") < Position("add"))
    /\ [](Committed => /\ config.git.autoCommit = "true"
                       /\ Position("commit") = Len(ran)
                       /\ Position("message") # 0
                       /\ Position("message") < Position("commit")
                       /\ config.git.autoAdd = "true" => Staged
                       /\ Staged => Position("add") < Position("commit"))
    /\ [](config.git.autoCommit # "true" => ~Committed)

\* A flow that staged and then committed.
C20_Witness ==
    /\ gitPc = "end"
    /\ gitStatusOf(porcelain) # <<>>
    /\ config.git.autoAdd = "true" /\ config.git.autoCommit = "true"
    /\ ran = <<"message", "add", "commit">>

====
